---- MODULE Spec2Model ----
(***************************************************************************)
(* Greater Manchester brownfield risk scoring.                             *)
(*                                                                         *)
(* Three programs are modelled:                                            *)
(*   Spec     - gee/analysis.js: filter the register, normalise the three  *)
(*              environmental layers, sample them at every site, export.   *)
(*   SpecNorm - the three layer transforms of gee/analysis.js applied to   *)
(*              single raw values (distance, soil class, slope).           *)
(*   SpecR    - the R reporting script: clean, categorise, summarise,      *)
(*              rank and join the exported table.                          *)
(*                                                                         *)
(* Numbers are exact rationals <<n, d>> in lowest terms with d > 0.        *)
(* <<0, 0>> is "no value" (a masked pixel, a null property, NA) and        *)
(* <<1, 0>> is the error a server-side number operation raises on null.    *)
(***************************************************************************)
EXTENDS Integers, Sequences, FiniteSets, TLC

VARIABLES
    pc,                 \* position in the running script
    table,              \* the brownfield register (asset imported as `table`)
    riverDist,          \* per pixel: true distance in metres to the nearest river
    soilTexture,        \* per pixel: USDA texture class, Null where the raster is masked
    slope,              \* per pixel: slope in degrees, Null where the raster is masked
    brownfieldGM,       \* the filtered feature collection
    brownfieldWithRisk, \* the mapped (scored) feature collection
    exported,           \* rows of the exported CSV
    nin,                \* SpecNorm: raw inputs of the layer transforms
    nout,               \* SpecNorm: transformed values
    brownfield,         \* SpecR: rows read from the CSV
    brownfield_shp,     \* SpecR: references present in the shapefile
    brownfield_clean,   \* SpecR: rows kept by the hectares filter (with risk_category)
    risk_summary,       \* SpecR: per-tier summary
    top10,              \* SpecR: ranked extract
    brownfield_spatial  \* SpecR: join of shapefile and cleaned rows

vars == <<pc, table, riverDist, soilTexture, slope, brownfieldGM, brownfieldWithRisk,
          exported, nin, nout, brownfield, brownfield_shp, brownfield_clean,
          risk_summary, top10, brownfield_spatial>>

geeVars == <<table, riverDist, soilTexture, slope, brownfieldGM, brownfieldWithRisk, exported>>
normVars == <<nin, nout>>
rVars == <<brownfield, brownfield_shp, brownfield_clean, risk_summary, top10, brownfield_spatial>>

----------------------------------------------------------------------------
(* Bounds of the model *)

MaxSites == 2
MaxRows == 2

(* Program constants *)

SearchRadius == 10000
WaterMaxDist == 5000
SoilClasses == 12
SlopeMax == 30
NFactors == 3
TopN == 10

----------------------------------------------------------------------------
(* Exact rational arithmetic *)

Null == <<0, 0>>
Err == <<1, 0>>

Abs(x) == IF x < 0 THEN -x ELSE x

RECURSIVE GCD(_, _)
GCD(a, b) == IF b = 0 THEN a ELSE GCD(b, a % b)

Rat(n, d) ==
    LET s == IF d < 0 THEN -1 ELSE 1
        g == GCD(Abs(n), Abs(d))
    IN  <<(s * n) \div g, (s * d) \div g>>

IsNum(r) == r[2] > 0

RAdd(a, b) == Rat(a[1] * b[2] + b[1] * a[2], a[2] * b[2])
RMul(a, b) == Rat(a[1] * b[1], a[2] * b[2])
RDiv(a, b) == Rat(a[1] * b[2], a[2] * b[1])
RLeq(a, b) == a[1] * b[2] <= b[1] * a[2]
RLt(a, b) == a[1] * b[2] < b[1] * a[2]
RMin(a, b) == IF RLeq(a, b) THEN a ELSE b
RMax(a, b) == IF RLeq(a, b) THEN b ELSE a

\* sum() of a numeric column: NA as soon as one element is NA
RECURSIVE RSum(_)
RSum(s) ==
    IF s = <<>> THEN Rat(0, 1)
    ELSE IF IsNum(Head(s)) /\ IsNum(RSum(Tail(s))) THEN RAdd(Head(s), RSum(Tail(s)))
    ELSE Null

\* The sum of image[p] over the pixels p of S.
RECURSIVE SumOver(_, _)
SumOver(image, S) ==
    IF S = {} THEN Rat(0, 1)
    ELSE LET p == CHOOSE q \in S : \A r \in S : q <= r
         IN  RAdd(image[p], SumOver(image, S \ {p}))

----------------------------------------------------------------------------
(* The study region and the raster layers (analysis.js 8-108) *)

\* The rectangle, as the pixel cells it covers. Every raster is clipped to it.
greaterManchester == {1, 2}

\* Where a register point can lie: in one of the cells, or outside the rectangle (0).
Geometries == {0} \cup greaterManchester

\* point.buffer(30) sampled at scale 30: the cell of the point and its neighbour.
\* Pixels enter the mean with equal weight.
Buffer(geom) == {geom, geom + 1}

\* Raw pixel contents the rasters are drawn from: distance to the nearest river in
\* metres, soil texture class, slope in degrees.
PixelKinds ==
    { [dist |-> 0,     soil |-> Rat(12, 1), slp |-> Rat(0, 1)],
      [dist |-> 5000,  soil |-> Rat(6, 1),  slp |-> Rat(30, 1)],
      [dist |-> 7500,  soil |-> Rat(3, 1),  slp |-> Rat(45, 1)],
      [dist |-> 12000, soil |-> Rat(9, 1),  slp |-> Rat(15, 1)],
      [dist |-> 2500,  soil |-> Null,       slp |-> Null],
      [dist |-> 1000,  soil |-> Rat(12, 1), slp |-> Rat(3, 1)] }

\* rivers.distance({searchRadius: 10000}): pixels with no river within the search
\* radius are masked.
RiverDistanceOf(d) == IF d <= SearchRadius THEN Rat(d, 1) ELSE Null

riverDistance == [p \in greaterManchester |-> RiverDistanceOf(riverDist[p])]

\* Pixel-wise image arithmetic: a masked pixel stays masked.
ImgDivide(v, k) == IF IsNum(v) THEN RDiv(v, Rat(k, 1)) ELSE Null
ImgMultiply(v, k) == IF IsNum(v) THEN RMul(v, Rat(k, 1)) ELSE Null
ImgAdd(v, k) == IF IsNum(v) THEN RAdd(v, Rat(k, 1)) ELSE Null
ImgClamp(v, lo, hi) == IF IsNum(v) THEN RMax(Rat(lo, 1), RMin(Rat(hi, 1), v)) ELSE Null

----------------------------------------------------------------------------
(* Layer normalisers (analysis.js 110-124) *)

\* Variant: the water transform without its clamp.
WaterRiskNoClamp(v) == ImgAdd(ImgMultiply(ImgDivide(v, WaterMaxDist), -1), 1)

WaterRiskOf(v) == ImgClamp(ImgAdd(ImgMultiply(ImgDivide(v, WaterMaxDist), -1), 1), 0, 1)

SoilRiskOf(v) == ImgDivide(v, SoilClasses)

\* Variant: the slope transform without its clamp.
SlopeRiskNoClamp(v) == ImgAdd(ImgMultiply(ImgDivide(v, SlopeMax), -1), 1)

SlopeRiskOf(v) == ImgClamp(ImgAdd(ImgMultiply(ImgDivide(v, SlopeMax), -1), 1), 0, 1)

waterRisk == [p \in greaterManchester |-> WaterRiskOf(riverDistance[p])]
soilRisk == [p \in greaterManchester |-> SoilRiskOf(soilTexture[p])]
slopeRisk == [p \in greaterManchester |-> SlopeRiskOf(slope[p])]

----------------------------------------------------------------------------
(* Site risk sampler (analysis.js 126-167) *)

\* image.reduceRegion({reducer: mean, geometry, scale}).get(band): the mean of the
\* unmasked pixels of the region, null when the region holds none.
ReduceRegionMean(image, region) ==
    LET valid == {p \in region \cap DOMAIN image : IsNum(image[p])}
    IN  IF valid = {} THEN Null
        ELSE RDiv(SumOver(image, valid), Rat(Cardinality(valid), 1))

\* ee.Number arithmetic: a null operand is an error ("Parameter 'left' is required").
NumberAdd(a, b) == IF IsNum(a) /\ IsNum(b) THEN RAdd(a, b) ELSE Err
NumberDivide(a, k) == IF IsNum(a) THEN RDiv(a, Rat(k, 1)) ELSE Err

\* Variant: the sum of three factors divided by two.
TotalRiskWrongDivisor(w, s, sl) == NumberDivide(NumberAdd(NumberAdd(w, s), sl), 2)

TotalRisk(w, s, sl) == NumberDivide(NumberAdd(NumberAdd(w, s), sl), NFactors)

\* feature.set(dict): a copy of the feature with the properties overwritten or added;
\* a null value leaves no property.
FeatureSet(f, props) ==
    LET keys == {k \in DOMAIN f \cup DOMAIN props : k \in DOMAIN props => props[k] # Null}
    IN  [k \in keys |-> IF k \in DOMAIN props THEN props[k] ELSE f[k]]

addRiskFactors(feature) ==
    LET point == feature.geometry
        waterRiskValue == ReduceRegionMean(waterRisk, Buffer(point))
        soilRiskValue == ReduceRegionMean(soilRisk, Buffer(point))
        slopeRiskValue == ReduceRegionMean(slopeRisk, Buffer(point))
        totalRisk == TotalRisk(waterRiskValue, soilRiskValue, slopeRiskValue)
    IN  FeatureSet(feature, [water_risk |-> waterRiskValue,
                             soil_risk  |-> soilRiskValue,
                             slope_risk |-> slopeRiskValue,
                             total_risk |-> totalRisk])

\* The evaluation of a mapped function failed for this element.
Failed(scored) == "total_risk" \in DOMAIN scored /\ scored.total_risk = Err

----------------------------------------------------------------------------
(* Region and dataset filter (analysis.js 14-22) *)

\* ee.Filter.eq(name, value) with a non-null value: the property exists and equals it.
FilterEq(f, name, value) == name \in DOMAIN f /\ f[name] = value

\* ee.Filter.eq(name, null): the feature has no such property.
FilterEqNull(f, name) == name \notin DOMAIN f

FilterBoundsTest(f) == f.geometry \in greaterManchester

\* Variant: only the empty string counts as "no end-date".
EndDateFilterEmptyOnly(f) == FilterEq(f, "end_date", "")

EndDateFilter(f) == FilterEq(f, "end_date", "") \/ FilterEqNull(f, "end_date")

----------------------------------------------------------------------------
(* The register *)

EndDates == {"", "2021-03-31", "absent"}

MakeSite(i, a) ==
    IF a.end = "absent"
    THEN [reference |-> i, geometry |-> a.geometry]
    ELSE [reference |-> i, geometry |-> a.geometry, end_date |-> a.end]

Range(f) == {f[i] : i \in DOMAIN f}

References(coll) == {f.reference : f \in coll}

----------------------------------------------------------------------------
(* gee/analysis.js as a sequence of steps *)

Selectors == {"reference", "water_risk", "soil_risk", "slope_risk", "total_risk"}

\* One CSV row: the selected columns, empty where the feature has no such property.
ExportRow(f) == [c \in Selectors |-> IF c \in DOMAIN f THEN f[c] ELSE Null]

IdleNorm == nin = <<>> /\ nout = <<>>

IdleR ==
    /\ brownfield = <<>> /\ brownfield_shp = {} /\ brownfield_clean = <<>>
    /\ risk_summary = <<>> /\ top10 = <<>> /\ brownfield_spatial = <<>>

IdleGee ==
    /\ table = <<>> /\ riverDist = <<>> /\ soilTexture = <<>> /\ slope = <<>>
    /\ brownfieldGM = {} /\ brownfieldWithRisk = {} /\ exported = {}

Init ==
    /\ pc = "start"
    /\ \E n \in 0..MaxSites :
         \E a \in [1..n -> [geometry : Geometries, end : EndDates]] :
            table = [i \in 1..n |-> MakeSite(i, a[i])]
    /\ \E k \in [greaterManchester -> PixelKinds] :
         /\ riverDist = [p \in greaterManchester |-> k[p].dist]
         /\ soilTexture = [p \in greaterManchester |-> k[p].soil]
         /\ slope = [p \in greaterManchester |-> k[p].slp]
    /\ brownfieldGM = {}
    /\ brownfieldWithRisk = {}
    /\ exported = {}
    /\ IdleNorm
    /\ IdleR

\* table.filterBounds(greaterManchester)
FilterBounds ==
    /\ pc = "start"
    /\ brownfieldGM' = {f \in Range(table) : FilterBoundsTest(f)}
    /\ pc' = "filterEndDate"
    /\ UNCHANGED <<table, riverDist, soilTexture, slope, brownfieldWithRisk, exported>>
    /\ UNCHANGED <<normVars, rVars>>

\* brownfieldGM.filter(or(eq('end-date', ''), eq('end-date', null)))
FilterEndDate ==
    /\ pc = "filterEndDate"
    /\ brownfieldGM' = {f \in brownfieldGM : EndDateFilter(f)}
    /\ pc' = "map"
    /\ UNCHANGED <<table, riverDist, soilTexture, slope, brownfieldWithRisk, exported>>
    /\ UNCHANGED <<normVars, rVars>>

\* brownfieldGM.map(addRiskFactors), one element at a time in any order. An element
\* whose evaluation fails fails the whole collection.
MapAddRiskFactors ==
    /\ pc = "map"
    /\ \E f \in brownfieldGM :
         /\ f.reference \notin References(brownfieldWithRisk)
         /\ LET scored == addRiskFactors(f)
            IN  IF Failed(scored)
                THEN /\ brownfieldWithRisk' = {}
                     /\ pc' = "failed"
                ELSE /\ brownfieldWithRisk' = brownfieldWithRisk \cup {scored}
                     /\ pc' = "map"
    /\ UNCHANGED <<table, riverDist, soilTexture, slope, brownfieldGM, exported>>
    /\ UNCHANGED <<normVars, rVars>>

\* Export.table.toDrive({collection: brownfieldWithRisk, selectors: [...]})
ExportTable ==
    /\ pc = "map"
    /\ References(brownfieldGM) = References(brownfieldWithRisk)
    /\ exported' = {ExportRow(f) : f \in brownfieldWithRisk}
    /\ pc' = "exported"
    /\ UNCHANGED <<table, riverDist, soilTexture, slope, brownfieldGM, brownfieldWithRisk>>
    /\ UNCHANGED <<normVars, rVars>>

Next == FilterBounds \/ FilterEndDate \/ MapAddRiskFactors \/ ExportTable

Spec == Init /\ [][Next]_vars

----------------------------------------------------------------------------
(* The layer transforms on single raw values *)

Distances == {0, 1, 2500, 4999, 5000, 5001, 7500, 10000, 10001, 12000}
Slopes == {0, 1, 15, 29, 30, 31, 45, 90}
SoilDomain == 1..SoilClasses

InitNorm ==
    /\ pc = "norm"
    /\ nin \in [dist : Distances, soil : SoilDomain, slopeA : Slopes, slopeB : Slopes]
    /\ nout = <<>>
    /\ IdleGee
    /\ IdleR

Put(f, k, v) == [x \in DOMAIN f \cup {k} |-> IF x = k THEN v ELSE f[x]]

\* riverDistance, then waterRisk, at a pixel whose nearest river is nin.dist metres away
NormaliseWater ==
    /\ pc = "norm"
    /\ "water" \notin DOMAIN nout
    /\ nout' = Put(nout, "water", WaterRiskOf(RiverDistanceOf(nin.dist)))
    /\ UNCHANGED <<pc, nin, geeVars, rVars>>

\* soilRisk at a pixel of texture class nin.soil
NormaliseSoil ==
    /\ pc = "norm"
    /\ "soil" \notin DOMAIN nout
    /\ nout' = Put(nout, "soil", SoilRiskOf(Rat(nin.soil, 1)))
    /\ UNCHANGED <<pc, nin, geeVars, rVars>>

\* slopeRisk at two pixels of slope nin.slopeA and nin.slopeB
NormaliseSlope ==
    /\ pc = "norm"
    /\ "slopeA" \notin DOMAIN nout
    /\ nout' = Put(Put(nout, "slopeA", SlopeRiskOf(Rat(nin.slopeA, 1))),
                   "slopeB", SlopeRiskOf(Rat(nin.slopeB, 1)))
    /\ UNCHANGED <<pc, nin, geeVars, rVars>>

NextNorm == NormaliseWater \/ NormaliseSoil \/ NormaliseSlope

SpecNorm == InitNorm /\ [][NextNorm]_vars

----------------------------------------------------------------------------
(* The reporting script *)

NA == Null

HighThreshold == Rat(8, 10)
MediumThreshold == Rat(7, 10)

Totals == {NA, Rat(3, 5), Rat(7, 10), Rat(3, 4), Rat(4, 5), Rat(5, 6), Rat(9, 10)}
Hectares == {NA, Rat(1, 2), Rat(3, 1)}
Levels == {"Low", "Medium", "High"}

\* x >= y on numeric columns: NA when x is NA
Geq(x, y) == IF ~IsNum(x) THEN "NA" ELSE IF RLeq(y, x) THEN "TRUE" ELSE "FALSE"

\* case_when: the value of the first clause whose condition is TRUE
RECURSIVE CaseWhen(_)
CaseWhen(clauses) ==
    IF clauses = <<>> THEN "NA"
    ELSE IF Head(clauses)[1] = "TRUE" THEN Head(clauses)[2]
    ELSE CaseWhen(Tail(clauses))

\* Variant: the High threshold is exclusive.
RiskCategoryStrict(total_risk) ==
    IF IsNum(total_risk) /\ RLt(HighThreshold, total_risk) THEN "High"
    ELSE IF IsNum(total_risk) /\ RLeq(MediumThreshold, total_risk) THEN "Medium"
    ELSE "Low"

RiskCategory(total_risk) ==
    CaseWhen(<< <<Geq(total_risk, HighThreshold), "High">>,
                <<Geq(total_risk, MediumThreshold), "Medium">>,
                <<"TRUE", "Low">> >>)

\* Variant: no row is removed.
KeepRowAll(r) == TRUE

\* filter(!is.na(hectares))
KeepRow(r) == r.hectares # NA

\* round(x, digits) on an exact value, halves to even; NA stays NA
Pow10(k) == IF k = 3 THEN 1000 ELSE IF k = 2 THEN 100 ELSE 1

Round(x, digits) ==
    IF ~IsNum(x) THEN NA
    ELSE LET m == Pow10(digits)
             q == (x[1] * m) \div x[2]
             r == (x[1] * m) % x[2]
             up == 2 * r > x[2] \/ (2 * r = x[2] /\ q % 2 = 1)
         IN  Rat(IF up THEN q + 1 ELSE q, m)

\* arrange(desc(total_risk)): row i comes before row j; NA last, ties in table order
Before(rows, i, j) ==
    LET a == rows[i].total_risk
        b == rows[j].total_risk
    IN  \/ IsNum(a) /\ IsNum(b) /\ RLt(b, a)
        \/ IsNum(a) /\ ~IsNum(b)
        \/ (a = b \/ (~IsNum(a) /\ ~IsNum(b))) /\ i < j

ArrangeDesc(rows) ==
    LET pos(i) == 1 + Cardinality({j \in DOMAIN rows : j # i /\ Before(rows, j, i)})
    IN  [k \in DOMAIN rows |-> rows[CHOOSE i \in DOMAIN rows : pos(i) = k]]

Slice(rows, n) == SubSeq(rows, 1, IF Len(rows) < n THEN Len(rows) ELSE n)

Top10Row(r) ==
    [reference |-> r.reference,
     hectares |-> Round(Round(r.hectares, 3), 2),
     total_risk |-> Round(r.total_risk, 3)]

Group(rows, level) == SelectSeq(rows, LAMBDA r : r.risk_category = level)

SummaryOf(rows) ==
    [n_sites |-> Len(rows),
     mean_hectares |-> LET total == RSum([i \in DOMAIN rows |-> rows[i].hectares])
                       IN  IF IsNum(total) THEN RDiv(total, Rat(Len(rows), 1)) ELSE NA,
     total_hectares |-> RSum([i \in DOMAIN rows |-> rows[i].hectares])]

InitR ==
    /\ pc = "r_clean"
    /\ \E n \in 0..MaxRows :
         \E a \in [1..n -> [hectares : Hectares, total_risk : Totals]] :
            brownfield = [i \in 1..n |-> [reference |-> i, hectares |-> a[i].hectares,
                                          total_risk |-> a[i].total_risk]]
    /\ brownfield_shp = {}
    /\ brownfield_clean = <<>>
    /\ risk_summary = <<>>
    /\ top10 = <<>>
    /\ brownfield_spatial = <<>>
    /\ IdleGee
    /\ IdleNorm

\* brownfield_clean <- brownfield %>% filter(!is.na(hectares))
Clean ==
    /\ pc = "r_clean"
    /\ brownfield_clean' = SelectSeq(brownfield, KeepRow)
    /\ pc' = "r_categorise"
    /\ UNCHANGED <<brownfield, brownfield_shp, risk_summary, top10, brownfield_spatial>>
    /\ UNCHANGED <<geeVars, normVars>>

\* mutate(risk_category = case_when(...))
Categorise ==
    /\ pc = "r_categorise"
    /\ brownfield_clean' =
         [i \in DOMAIN brownfield_clean |->
            [reference |-> brownfield_clean[i].reference,
             hectares |-> brownfield_clean[i].hectares,
             total_risk |-> brownfield_clean[i].total_risk,
             risk_category |-> RiskCategory(brownfield_clean[i].total_risk)]]
    /\ pc' = "r_summarise"
    /\ UNCHANGED <<brownfield, brownfield_shp, risk_summary, top10, brownfield_spatial>>
    /\ UNCHANGED <<geeVars, normVars>>

\* group_by(risk_category) %>% summarise(n(), mean(hectares), sum(hectares))
Summarise ==
    /\ pc = "r_summarise"
    /\ risk_summary' =
         [level \in {l \in Levels : Group(brownfield_clean, l) # <<>>} |->
            SummaryOf(Group(brownfield_clean, level))]
    /\ pc' = "r_top10"
    /\ UNCHANGED <<brownfield, brownfield_shp, brownfield_clean, top10, brownfield_spatial>>
    /\ UNCHANGED <<geeVars, normVars>>

\* arrange(desc(total_risk)) %>% slice(1:10) %>% select(...) %>% mutate(round)
Top10 ==
    /\ pc = "r_top10"
    /\ top10' = LET ranked == Slice(ArrangeDesc(brownfield_clean), TopN)
                IN  [i \in DOMAIN ranked |-> Top10Row(ranked[i])]
    /\ pc' = "r_read_shp"
    /\ UNCHANGED <<brownfield, brownfield_shp, brownfield_clean, risk_summary, brownfield_spatial>>
    /\ UNCHANGED <<geeVars, normVars>>

\* brownfield_shp <- st_read(...): the references the shapefile holds
ReadShp ==
    /\ pc = "r_read_shp"
    /\ brownfield_shp' \in SUBSET (1..MaxRows)
    /\ pc' = "r_join"
    /\ UNCHANGED <<brownfield, brownfield_clean, risk_summary, top10, brownfield_spatial>>
    /\ UNCHANGED <<geeVars, normVars>>

\* brownfield_shp %>% inner_join(brownfield_clean, by = "reference")
Join ==
    /\ pc = "r_join"
    /\ brownfield_spatial' =
         SelectSeq(brownfield_clean, LAMBDA r : r.reference \in brownfield_shp)
    /\ pc' = "r_done"
    /\ UNCHANGED <<brownfield, brownfield_shp, brownfield_clean, risk_summary, top10>>
    /\ UNCHANGED <<geeVars, normVars>>

NextR == Clean \/ Categorise \/ Summarise \/ Top10 \/ ReadShp \/ Join

SpecR == InitR /\ [][NextR]_vars

----------------------------------------------------------------------------
(* Properties of gee/analysis.js (Spec) *)

RiskFields == {"water_risk", "soil_risk", "slope_risk", "total_risk"}
SubScores == {"water_risk", "soil_risk", "slope_risk"}

Defined(r, k) == k \in DOMAIN r /\ IsNum(r[k])

Terminated == pc \in {"exported", "failed"}
Filtered == pc \in {"map", "exported", "failed"}

\* The normalised layer behind each sub-score
LayerOf(k) == IF k = "water_risk" THEN waterRisk
              ELSE IF k = "soil_risk" THEN soilRisk ELSE slopeRisk

\* The site's buffer holds no valid pixel of the layer
NoSample(f, k) == \A p \in Buffer(f.geometry) \cap greaterManchester : ~IsNum(LayerOf(k)[p])

RecordOf(f) == {r \in brownfieldWithRisk : r.reference = f.reference}

\* C1: on every scored record whose three sub-scores are defined, total_risk is
\* defined and three times total_risk equals water_risk + soil_risk + slope_risk.
C1_TotalRiskIsMean ==
    \A r \in brownfieldWithRisk :
        (\A k \in SubScores : Defined(r, k)) =>
            /\ Defined(r, "total_risk")
            /\ LET w == r.water_risk
                   s == r.soil_risk
                   l == r.slope_risk
                   t == r.total_risk
               IN  3 * t[1] * (w[2] * s[2] * l[2])
                     = t[2] * (w[1] * s[2] * l[2] + s[1] * w[2] * l[2] + l[1] * w[2] * s[2])

\* A scored record whose three sub-scores are defined and not all equal.
C1_Witness ==
    \E r \in brownfieldWithRisk :
        /\ \A k \in SubScores : Defined(r, k)
        /\ r.water_risk # r.soil_risk
        /\ r.total_risk # Rat(0, 1)

\* C2: once the run has ended, every filtered site whose buffer holds no valid pixel
\* of a layer has a scored record on which that layer's sub-score and total_risk are
\* both undefined.
C2_MissingSamplePropagates ==
    Terminated =>
        \A f \in brownfieldGM : \A k \in SubScores :
            NoSample(f, k) =>
                \E r \in RecordOf(f) : ~Defined(r, k) /\ ~Defined(r, "total_risk")

\* C3: once the run has ended, the export has completed, every filtered site has a
\* scored record, and a site whose three samples are defined has the record
\* addRiskFactors gives it.
C3_FailureIsolated ==
    Terminated =>
        /\ pc = "exported"
        /\ \A f \in brownfieldGM :
              /\ RecordOf(f) # {}
              /\ (\A k \in SubScores : ~NoSample(f, k)) => RecordOf(f) = {addRiskFactors(f)}

\* C4: after filtering, brownfieldGM holds exactly the register sites inside the
\* rectangle whose end-date is empty or absent: none with a non-empty end-date, and
\* every site of the region that has no end-date.
C4_FilterExact ==
    Filtered =>
        /\ \A f \in brownfieldGM :
              /\ f \in Range(table)
              /\ f.geometry \in greaterManchester
              /\ ~("end_date" \in DOMAIN f /\ f.end_date # "")
        /\ \A f \in Range(table) :
              (f.geometry \in greaterManchester
                 /\ ("end_date" \notin DOMAIN f \/ f.end_date = ""))
              => f \in brownfieldGM

\* After filtering: a site without end-date was kept, one with an empty end-date was
\* kept, and a site of the region with a non-empty end-date was dropped.
C4_Witness ==
    /\ Filtered
    /\ \E f \in brownfieldGM : "end_date" \notin DOMAIN f
    /\ \E f \in Range(table) :
          /\ f.geometry \in greaterManchester
          /\ "end_date" \in DOMAIN f /\ f.end_date # ""
          /\ f \notin brownfieldGM

\* C7: every risk field defined on a scored record lies in [0, 1].
C7_ScoresInUnitInterval ==
    \A r \in brownfieldWithRisk : \A k \in RiskFields :
        Defined(r, k) => 0 <= r[k][1] /\ r[k][1] <= r[k][2]

\* A scored record whose buffer holds a pixel where the water clamp acts (a river
\* between 5000 m and the search radius) and a pixel where the slope clamp acts.
C7_Witness ==
    \E r \in brownfieldWithRisk :
        /\ \A k \in RiskFields : Defined(r, k)
        /\ \E p \in Buffer(r.geometry) \cap greaterManchester :
              /\ riverDist[p] > WaterMaxDist /\ riverDist[p] <= SearchRadius
              /\ IsNum(slope[p]) /\ RLt(Rat(SlopeMax, 1), slope[p])

\* C9: once the run has ended, there is exactly one scored record per filtered site
\* and none besides, and each record is its site with only the four risk fields added.
C9_OneRecordPerSite ==
    Terminated =>
        /\ \A f \in brownfieldGM : Cardinality(RecordOf(f)) = 1
        /\ \A r \in brownfieldWithRisk :
              \E f \in brownfieldGM :
                 /\ f.reference = r.reference
                 /\ DOMAIN f \subseteq DOMAIN r
                 /\ DOMAIN r \ DOMAIN f \subseteq RiskFields
                 /\ \A k \in DOMAIN f : r[k] = f[k]

----------------------------------------------------------------------------
(* Properties of the layer transforms (SpecNorm) *)

\* v = clamp(1 - x / top, 0, 1), stated on integers
IsClampedRamp(v, x, top) ==
    /\ IsNum(v)
    /\ 0 <= v[1] /\ v[1] <= v[2]
    /\ (x = 0 => v = Rat(1, 1))
    /\ (x >= top => v = Rat(0, 1))
    /\ (x < top => v[1] * top = (top - x) * v[2])

\* C5: for every distance d >= 0 the water-risk value is defined and equals
\* clamp(1 - d/5000, 0, 1): in [0,1], 1 at d = 0, 0 for every d >= 5000.
C5_WaterRiskEverywhere ==
    "water" \in DOMAIN nout => IsClampedRamp(nout.water, nin.dist, WaterMaxDist)

\* C6: for every slope s >= 0 the slope-risk value equals clamp(1 - s/30, 0, 1): in
\* [0,1], 1 at s = 0, 0 for every s >= 30, and never larger for a steeper slope.
C6_SlopeRiskClamped ==
    "slopeA" \in DOMAIN nout =>
        /\ IsClampedRamp(nout.slopeA, nin.slopeA, SlopeMax)
        /\ IsClampedRamp(nout.slopeB, nin.slopeB, SlopeMax)
        /\ (nin.slopeA <= nin.slopeB => RLeq(nout.slopeB, nout.slopeA))

\* The slope transform applied to a slope inside the ramp and to one beyond 30 degrees.
C6_Witness ==
    /\ "slopeA" \in DOMAIN nout
    /\ 0 < nin.slopeA /\ nin.slopeA < SlopeMax /\ nin.slopeB > SlopeMax
    /\ RLt(nout.slopeB, nout.slopeA)

----------------------------------------------------------------------------
(* Properties of the reporting script (SpecR) *)

RefsOf(rows) == {rows[i].reference : i \in DOMAIN rows}

MissingHectares == {brownfield[i].reference : i \in {j \in DOMAIN brownfield : brownfield[j].hectares = NA}}

RECURSIVE SumSites(_)
SumSites(levels) ==
    IF levels = {} THEN 0
    ELSE LET l == CHOOSE x \in levels : TRUE
         IN  risk_summary[l].n_sites + SumSites(levels \ {l})

TierCountTotal == SumSites(DOMAIN risk_summary)

\* C8: when the script has finished, a site whose hectares is missing is still in
\* the risk-score outputs: it is counted in the tier counts, it is in the ranking
\* (which here takes every row, there being at most ten), and it is in the
\* GeoPackage join when the shapefile holds its reference.
C8_MissingHectaresKept ==
    pc = "r_done" =>
        /\ TierCountTotal = Len(brownfield)
        /\ \A ref \in MissingHectares :
              /\ Len(brownfield) <= TopN => ref \in RefsOf(top10)
              /\ ref \in brownfield_shp => ref \in RefsOf(brownfield_spatial)

\* C8 as amended: a site whose hectares is missing is removed from the cleaned
\* table and so from every output computed from it (tier counts, ranking, join);
\* every other site is in the cleaned table and counted in exactly one tier.
C8_MissingHectaresDropped ==
    pc = "r_done" =>
        /\ RefsOf(brownfield_clean) = RefsOf(brownfield) \ MissingHectares
        /\ TierCountTotal = Len(brownfield) - Cardinality(MissingHectares)
        /\ RefsOf(top10) \cap MissingHectares = {}
        /\ RefsOf(brownfield_spatial) \cap MissingHectares = {}

\* The script has finished on a table holding a site without hectares whose
\* reference is in the shapefile, and a site with hectares.
C8_Witness ==
    /\ pc = "r_done"
    /\ \E ref \in MissingHectares : ref \in brownfield_shp
    /\ RefsOf(brownfield_clean) # {}

\* C10: every cleaned row has exactly one tier: High iff total_risk >= 0.8, Medium
\* iff 0.7 <= total_risk < 0.8, Low otherwise (also when total_risk is NA); the tier
\* counts sum to the number of cleaned rows.
C10_TiersPartition ==
    /\ pc \in {"r_summarise", "r_top10", "r_read_shp", "r_join", "r_done"} =>
          \A i \in DOMAIN brownfield_clean :
             LET t == brownfield_clean[i].total_risk
                 c == brownfield_clean[i].risk_category
                 high == IsNum(t) /\ 10 * t[1] >= 8 * t[2]
                 medium == IsNum(t) /\ 10 * t[1] >= 7 * t[2] /\ 10 * t[1] < 8 * t[2]
             IN  /\ c \in Levels
                 /\ c = "High" <=> high
                 /\ c = "Medium" <=> medium
                 /\ c = "Low" <=> ~high /\ ~medium
    /\ pc \in {"r_top10", "r_read_shp", "r_join", "r_done"} =>
          TierCountTotal = Len(brownfield_clean)

\* The summary has been computed on a cleaned table holding a row with NA
\* total_risk (tier Low) and a row exactly on the High threshold (tier High).
C10_Witness ==
    /\ pc = "r_top10"
    /\ \E i \in DOMAIN brownfield_clean :
          brownfield_clean[i].total_risk = NA /\ brownfield_clean[i].risk_category = "Low"
    /\ \E i \in DOMAIN brownfield_clean :
          brownfield_clean[i].total_risk = HighThreshold
             /\ brownfield_clean[i].risk_category = "High"

====
